---------------------------- MODULE Spec2Model ----------------------------
(***************************************************************************)
(* Obscura: friends, events, expenses, splits, balances and settlements.    *)
(*                                                                         *)
(* Money is modelled in exact fixed point.  One model unit is              *)
(* 1/UnitsPerCent of a cent, so request bodies may carry sub-cent numbers  *)
(* (z.number() accepts any positive number) while the decimal(10,2)        *)
(* columns hold whole cents.  The IEEE-754 rounding error of the           *)
(* JavaScript sums is not modelled: a comparison against 0.01 is the       *)
(* exact comparison.                                                       *)
(*                                                                         *)
(* Spec      : every tRPC handler is one atomic step, driven as the UI     *)
(*             drives it (a successful mutation invalidates the cached     *)
(*             getBalance query), followed by getBalance and the render    *)
(*             of EventBalanceView.                                        *)
(* SpecApi     : the five expense handlers alone, any user id in a split.  *)
(* SpecCreate  : create and createEventExpense one statement at a time.    *)
(* SpecUpdate  : concurrent updateEventExpense, one statement at a time.   *)
(* SpecQuery   : the queries of the event page, asked by any session user. *)
(* SpecPlanner : EventBalanceView alone, over every small balance list.    *)
(* SpecLoop    : the settlement loop of the view, one iteration at a time. *)
(* SpecForm    : EventExpenseForm submitting amounts split evenly.         *)
(* SpecDebts   : event expenses written and deleted from the event page.   *)
(* SpecEvent   : the event handlers, called by creators and by others.     *)
(* SpecFriend  : the friend handlers, addByEmail one statement at a time.  *)
(***************************************************************************)
EXTENDS Integers, Sequences, FiniteSets, Bags, TLC

\* ------------------------------------------------------------ bounds
UnitsPerCent == 2
MaxUnits == 2
MaxSplits == 2
MaxExpenses == 2
MaxCalls == 2
MaxNet == 6
MaxCents == 8
MaxIds == 2

\* ------------------------------------------------------------ universe
Users == {"alice", "bob", "carol"}
Ghost == "ghost"
UserIds == Users \cup {Ghost}
\* The rows of the users table: the three users the requests come from and
\* name, and one more who only ever is a participant.
Registered == Users \cup {"dave"}
EventIds == {"e1"}
NoEvent == "null"
NoRow == [eventId |-> "absent"]
\* The event page: the getBalance query has no data yet, has data that
\* EventBalanceView has not rendered, or has data it has rendered.
Loading == "loading"
Fetched == "fetched"
Rendered == "rendered"
ExpenseIds == 1..MaxExpenses
CallIds == 1..MaxCalls

\* Who holds a session in the model, and the order user ids are listed in.
Sessions == {"alice", "bob"}
UserOrder == <<"alice", "bob", "carol", "ghost", "dave">>
Rank(order, u) == CHOOSE i \in 1..Len(order) : order[i] = u

\* Request bodies.  A split list is treated by the handlers as a multiset (its
\* sum and the rows inserted do not depend on the order of the list), so one
\* list per multiset is drawn: the one ordered by user and share.
Amounts == 1..MaxUnits
Ordered(s) ==
  \A i \in 1..(Len(s) - 1) :
    \/ Rank(UserOrder, s[i].userId) < Rank(UserOrder, s[i + 1].userId)
    \/ /\ s[i].userId = s[i + 1].userId
       /\ s[i].share <= s[i + 1].share
SplitLists(ids) ==
  {s \in UNION {[1..n -> [userId : ids, share : Amounts]] : n \in 1..MaxSplits} : Ordered(s)}
SplitInputs == SplitLists(Users)
SplitInputsAny == SplitLists(UserIds)

\* ------------------------------------------------------------ replies
Ok == "ok"
ErrNotAuthorizedAdd == "Not authorized to add expenses to this event"
ErrSplits == "Splits must add up to the total amount"
ErrNotFound == "Expense not found or not authorized"
ErrNotAuthorizedUpdate == "Not authorized to update this expense"
ErrNotAuthorizedView == "Not authorized to view this event"
ErrEventNotFound == "Event not found"
ErrForeignKey == "insert or update violates foreign key constraint"
ErrUserNotFound == "User with this email not found"
ErrSelf == "Cannot add yourself as a friend"
ErrFriendshipExists == "Friendship already exists"
ErrFriendshipNotFound == "Friendship not found"
ErrEventUpdate == "Event not found or not authorized to update"
ErrEventDelete == "Event not found or not authorized to delete"
ErrEventAdd == "Event not found or not authorized to add participants"
ErrEventRemove == "Event not found or not authorized to remove participants"
ErrAllPresent == "All participants are already in the event"
ErrRemoveCreator == "Cannot remove the event creator"

\* ------------------------------------------------------------ numbers
Abs(x) == IF x < 0 THEN -x ELSE x

\* A minimum that never exceeds 0.01, so that a debt is paid one cent at a
\* time; C22 tells it from Math.min.
MinOneCent(a, b) ==
  LET m == IF a < b THEN a ELSE b
  IN  IF m > UnitsPerCent THEN UnitsPerCent ELSE m

Min(a, b) == IF a < b THEN a ELSE b

Tolerance == UnitsPerCent

\* A positive number written to a decimal(10,2) column and read back with
\* parseFloat: rounded to whole cents, halves away from zero.
ToDecimal(x) == ((2 * x + UnitsPerCent) \div (2 * UnitsPerCent)) * UnitsPerCent

RECURSIVE SumShares(_)
SumShares(splits) ==
  IF splits = <<>> THEN 0
  ELSE splits[1].share + SumShares(Tail(splits))

\* A slot that holds no friend request, and a view that is not in its loop.
NoFriendCall ==
  [op |-> "idle", pc |-> "idle", user |-> "", email |-> "", friendUser |-> "", reply |-> "",
   list |-> <<>>]

NoLoop ==
  [pc |-> "idle", creditors |-> <<>>, debtors |-> <<>>, creditorIndex |-> 0,
   remaining |-> 0, debtorIndex |-> 0]

VARIABLES events, eventParticipants, expenses, expenseSplits, nextId,
          reply, page, eventExpenses, balance, settlements, calls,
          friends, friendCalls, loop

db == <<events, eventParticipants, expenses, expenseSplits, nextId>>
view == <<page, eventExpenses, balance, settlements>>
\* The friends table, the friend requests in flight, and the position of
\* EventBalanceView inside its settlement loop.
others == <<friends, friendCalls, loop>>
vars == <<events, eventParticipants, expenses, expenseSplits, nextId,
          reply, page, eventExpenses, balance, settlements, calls,
          friends, friendCalls, loop>>

\* utils.event.getBalance.invalidate after a mutation that succeeded.
Invalidate ==
  /\ page' = Loading
  /\ eventExpenses' = <<>>
  /\ balance' = <<>>
  /\ settlements' = <<>>

\* ------------------------------------------------------------ tables
SplitsOf(sp, id) == {r \in BagToSet(sp) : r.expenseId = id}

RECURSIVE BagSum(_, _)
BagSum(sp, rows) ==
  IF rows = {} THEN 0
  ELSE LET r == CHOOSE x \in rows : TRUE
       IN  sp[r] * r.share + BagSum(sp, rows \ {r})

ShareSum(sp, id) == BagSum(sp, SplitsOf(sp, id))

SplitCount(sp, id) == BagCardinality([r \in SplitsOf(sp, id) |-> sp[r]])

LiveIds(ex) == {i \in ExpenseIds : ex[i] # NoRow}

RECURSIVE RowsBag(_, _)
RowsBag(id, splits) ==
  IF splits = <<>> THEN EmptyBag
  ELSE SetToBag({[expenseId |-> id, userId |-> splits[1].userId,
                  share |-> ToDecimal(splits[1].share)]})
       (+) RowsBag(id, Tail(splits))

InsertExpense(ex, id, eventId, amount, paidBy) ==
  [ex EXCEPT ![id] = [eventId |-> eventId, amount |-> ToDecimal(amount), paidBy |-> paidBy]]

\* expense_splits.user_id and expense_splits.expense_id reference users and
\* expenses: the insert of a row that names neither fails as a whole.
SplitsInsertable(ex, id, splits) ==
  /\ ex[id] # NoRow
  /\ \A i \in 1..Len(splits) : splits[i].userId \in Registered

InsertSplits(sp, id, splits) == sp (+) RowsBag(id, splits)

DeleteSplits(sp, id) ==
  LET keep == BagToSet(sp) \ SplitsOf(sp, id)
  IN  [r \in keep |-> sp[r]]

\* ------------------------------------------------------------ handlers
IsMember(ev, parts, eventId, user) ==
  /\ ev[eventId] # NoRow
  /\ \/ ev[eventId].createdBy = user
     \/ \E i \in 1..Len(parts[eventId]) : parts[eventId][i] = user

SplitsBalanced(amount, splits) == ~(Abs(SumShares(splits) - amount) > Tolerance)

\* What a handler leaves behind: the two tables, the id counter and what the
\* caller is told.
Result(ex, sp, id, msg) == [expenses |-> ex, expenseSplits |-> sp, nextId |-> id, reply |-> msg]

Thrown(msg) == Result(expenses, expenseSplits, nextId, msg)

\* A createEventExpense that validates the shares only after it has inserted
\* the expense row; C8 tells it from the handler.
CreateEventExpenseCallLate(user, eventId, amount, splits) ==
  IF ~IsMember(events, eventParticipants, eventId, user) THEN Thrown(ErrNotAuthorizedAdd)
  ELSE LET ex == InsertExpense(expenses, nextId, eventId, amount, user)
       IN  IF ~SplitsBalanced(amount, splits)
           THEN Result(ex, expenseSplits, nextId + 1, ErrSplits)
           ELSE IF SplitsInsertable(ex, nextId, splits)
           THEN Result(ex, InsertSplits(expenseSplits, nextId, splits), nextId + 1, Ok)
           ELSE Result(ex, expenseSplits, nextId + 1, ErrForeignKey)

CreateEventExpenseCall(user, eventId, amount, splits) ==
  IF ~IsMember(events, eventParticipants, eventId, user) THEN Thrown(ErrNotAuthorizedAdd)
  ELSE IF ~SplitsBalanced(amount, splits) THEN Thrown(ErrSplits)
  ELSE LET ex == InsertExpense(expenses, nextId, eventId, amount, user)
       IN  IF SplitsInsertable(ex, nextId, splits)
           THEN Result(ex, InsertSplits(expenseSplits, nextId, splits), nextId + 1, Ok)
           ELSE Result(ex, expenseSplits, nextId + 1, ErrForeignKey)

\* expense.create: the expense row, then one split of the whole amount for
\* the payer.
CreateCall(user, amount) ==
  LET ex == InsertExpense(expenses, nextId, NoEvent, amount, user)
      own == <<[userId |-> user, share |-> amount]>>
  IN  Result(ex, InsertSplits(expenseSplits, nextId, own), nextId + 1, Ok)

OwnPersonal(ex, id, user) ==
  /\ ex[id] # NoRow
  /\ ex[id].paidBy = user
  /\ ex[id].eventId = NoEvent

UpdateExpense(ex, id, amount) == [ex EXCEPT ![id].amount = ToDecimal(amount)]

\* update expense_splits set share = amount where expense_id = id and user_id = user
UpdateSplitShare(sp, id, user, amount) ==
  LET hit == {r \in SplitsOf(sp, id) : r.userId = user}
      moved == BagCardinality([r \in hit |-> sp[r]])
      rest == [r \in BagToSet(sp) \ hit |-> sp[r]]
      row == [expenseId |-> id, userId |-> user, share |-> ToDecimal(amount)]
  IN  IF hit = {} THEN sp ELSE rest (+) [r \in {row} |-> moved]

UpdateCall(user, id, amount) ==
  IF ~OwnPersonal(expenses, id, user) THEN Thrown(ErrNotFound)
  ELSE Result(UpdateExpense(expenses, id, amount),
              UpdateSplitShare(expenseSplits, id, user, amount), nextId, Ok)

\* delete from expenses: the splits go by cascade.
DeleteExpense(ex, id) == [ex EXCEPT ![id] = NoRow]

DeleteCall(user, id) ==
  IF ~OwnPersonal(expenses, id, user) THEN Thrown(ErrNotFound)
  ELSE Result(DeleteExpense(expenses, id), DeleteSplits(expenseSplits, id), nextId, Ok)

OwnExpense(ex, id, user) ==
  /\ ex[id] # NoRow
  /\ ex[id].paidBy = user

\* An updateEventExpense that inserts the new splits without deleting the old
\* ones; C11 tells it from the handler.
UpdateEventExpenseCallPatch(user, id, amount, splits) ==
  IF ~OwnExpense(expenses, id, user) THEN Thrown(ErrNotFound)
  ELSE IF /\ expenses[id].eventId # NoEvent
          /\ ~IsMember(events, eventParticipants, expenses[id].eventId, user)
  THEN Thrown(ErrNotAuthorizedUpdate)
  ELSE IF ~SplitsBalanced(amount, splits) THEN Thrown(ErrSplits)
  ELSE LET ex == UpdateExpense(expenses, id, amount)
       IN  IF SplitsInsertable(ex, id, splits)
           THEN Result(ex, InsertSplits(expenseSplits, id, splits), nextId, Ok)
           ELSE Result(ex, expenseSplits, nextId, ErrForeignKey)

UpdateEventExpenseCall(user, id, amount, splits) ==
  IF ~OwnExpense(expenses, id, user) THEN Thrown(ErrNotFound)
  ELSE IF /\ expenses[id].eventId # NoEvent
          /\ ~IsMember(events, eventParticipants, expenses[id].eventId, user)
  THEN Thrown(ErrNotAuthorizedUpdate)
  ELSE IF ~SplitsBalanced(amount, splits) THEN Thrown(ErrSplits)
  ELSE LET ex == UpdateExpense(expenses, id, amount)
           cleared == DeleteSplits(expenseSplits, id)
       IN  IF SplitsInsertable(ex, id, splits)
           THEN Result(ex, InsertSplits(cleared, id, splits), nextId, Ok)
           ELSE Result(ex, cleared, nextId, ErrForeignKey)

\* A handler run to its end, and what the form does with the outcome: the event
\* form invalidates the getBalance query when the mutation succeeded.
Respond(r, invalidates) ==
  /\ expenses' = r.expenses
  /\ expenseSplits' = r.expenseSplits
  /\ nextId' = r.nextId
  /\ reply' = r.reply
  /\ IF invalidates /\ r.reply = Ok THEN Invalidate ELSE UNCHANGED view
  /\ UNCHANGED <<events, eventParticipants, calls, others>>

CreateEventExpense(user, eventId, amount, splits) ==
  /\ nextId <= MaxExpenses
  /\ Respond(CreateEventExpenseCall(user, eventId, amount, splits), TRUE)

UpdateEventExpense(user, id, amount, splits) ==
  Respond(UpdateEventExpenseCall(user, id, amount, splits), TRUE)

Create(user, amount) ==
  /\ nextId <= MaxExpenses
  /\ Respond(CreateCall(user, amount), FALSE)

Update(user, id, amount) == Respond(UpdateCall(user, id, amount), FALSE)

Delete(user, id) == Respond(DeleteCall(user, id), FALSE)

\* ------------------------------------------------------------ statements
\* The same handlers one database statement at a time: no handler opens a
\* transaction, so every await is a point where another request may run.
Idle ==
  [op |-> "idle", pc |-> "idle", user |-> "", eventId |-> NoEvent, id |-> 0,
   amount |-> 0, splits |-> <<>>, reply |-> ""]

Request(op, pc, user, eventId, id, amount, splits, msg) ==
  [op |-> op, pc |-> pc, user |-> user, eventId |-> eventId, id |-> id,
   amount |-> amount, splits |-> splits, reply |-> msg]

\* Requests that will still insert an expense row.
Inserting == {c \in CallIds : calls[c].pc = "insertExpense"}

Refuse(c, op, user, eventId, id, amount, splits, msg) ==
  /\ calls' = [calls EXCEPT ![c] = Request(op, "done", user, eventId, id, amount, splits, msg)]
  /\ reply' = msg

BeginCreateEventExpense(c, user, eventId, amount, splits) ==
  /\ calls[c].pc = "idle"
  /\ nextId + Cardinality(Inserting) <= MaxExpenses
  /\ IF ~IsMember(events, eventParticipants, eventId, user)
     THEN Refuse(c, "createEventExpense", user, eventId, 0, amount, splits, ErrNotAuthorizedAdd)
     ELSE IF ~SplitsBalanced(amount, splits)
     THEN Refuse(c, "createEventExpense", user, eventId, 0, amount, splits, ErrSplits)
     ELSE /\ calls' = [calls EXCEPT ![c] = Request("createEventExpense", "insertExpense", user,
                                                   eventId, 0, amount, splits, "")]
          /\ UNCHANGED reply
  /\ UNCHANGED <<db, view, others>>

BeginCreate(c, user, amount) ==
  /\ calls[c].pc = "idle"
  /\ nextId + Cardinality(Inserting) <= MaxExpenses
  /\ calls' = [calls EXCEPT ![c] = Request("create", "insertExpense", user, NoEvent, 0, amount,
                                           <<[userId |-> user, share |-> amount]>>, "")]
  /\ UNCHANGED <<db, view, reply, others>>

InsertExpenseStep(c) ==
  /\ calls[c].pc = "insertExpense"
  /\ expenses' = InsertExpense(expenses, nextId, calls[c].eventId, calls[c].amount, calls[c].user)
  /\ nextId' = nextId + 1
  /\ calls' = [calls EXCEPT ![c].id = nextId, ![c].pc = "insertSplits"]
  /\ UNCHANGED <<events, eventParticipants, expenseSplits, view, reply, others>>

BeginUpdateEventExpense(c, user, id, amount, splits) ==
  /\ calls[c].pc = "idle"
  /\ IF ~OwnExpense(expenses, id, user)
     THEN Refuse(c, "updateEventExpense", user, NoEvent, id, amount, splits, ErrNotFound)
     ELSE IF /\ expenses[id].eventId # NoEvent
             /\ ~IsMember(events, eventParticipants, expenses[id].eventId, user)
     THEN Refuse(c, "updateEventExpense", user, NoEvent, id, amount, splits,
                 ErrNotAuthorizedUpdate)
     ELSE IF ~SplitsBalanced(amount, splits)
     THEN Refuse(c, "updateEventExpense", user, NoEvent, id, amount, splits, ErrSplits)
     ELSE /\ calls' = [calls EXCEPT ![c] = Request("updateEventExpense", "updateExpense", user,
                                                   expenses[id].eventId, id, amount, splits, "")]
          /\ UNCHANGED reply
  /\ UNCHANGED <<db, view, others>>

UpdateExpenseStep(c) ==
  /\ calls[c].pc = "updateExpense"
  /\ expenses' = IF expenses[calls[c].id] = NoRow THEN expenses
                 ELSE UpdateExpense(expenses, calls[c].id, calls[c].amount)
  /\ calls' = [calls EXCEPT ![c].pc = "deleteSplits"]
  /\ UNCHANGED <<events, eventParticipants, expenseSplits, nextId, view, reply, others>>

DeleteSplitsStep(c) ==
  /\ calls[c].pc = "deleteSplits"
  /\ expenseSplits' = DeleteSplits(expenseSplits, calls[c].id)
  /\ calls' = [calls EXCEPT ![c].pc = "insertSplits"]
  /\ UNCHANGED <<events, eventParticipants, expenses, nextId, view, reply, others>>

\* The last statement of create, createEventExpense and updateEventExpense.
InsertSplitsStep(c) ==
  /\ calls[c].pc = "insertSplits"
  /\ IF SplitsInsertable(expenses, calls[c].id, calls[c].splits)
     THEN /\ expenseSplits' = InsertSplits(expenseSplits, calls[c].id, calls[c].splits)
          /\ reply' = Ok
     ELSE /\ UNCHANGED expenseSplits
          /\ reply' = ErrForeignKey
  /\ calls' = [calls EXCEPT ![c].pc = "done", ![c].reply = reply']
  /\ UNCHANGED <<events, eventParticipants, expenses, nextId, view, others>>

\* The response reaches the form: the event form invalidates getBalance after
\* a mutation that succeeded.
Return(c) ==
  /\ calls[c].pc = "done"
  /\ calls' = [calls EXCEPT ![c] = Idle]
  /\ IF calls[c].reply = Ok /\ calls[c].op # "create" THEN Invalidate ELSE UNCHANGED view
  /\ UNCHANGED <<db, reply, others>>

\* ------------------------------------------------------------ getBalance
\* The rows of one findMany: the event's expenses in the order the database
\* returns them (no orderBy: any order), each with its splits.
RECURSIVE SplitRows(_, _, _)
SplitRows(sp, rows, rank) ==
  IF rows = {} THEN <<>>
  ELSE LET r == CHOOSE x \in rows :
                  \A y \in rows : Rank(rank, x.userId) <= Rank(rank, y.userId)
           same == {y \in rows : y.userId = r.userId}
           one == CHOOSE x \in same : \A y \in same : x.share <= y.share
       IN  [i \in 1..sp[one] |-> [userId |-> one.userId, share |-> one.share]]
           \o SplitRows(sp, rows \ {one}, rank)

\* A query that returns the first row only; C19 tells it from the handler.
FindFirstEventExpense(ex, sp, order, rank) ==
  [k \in 1..Min(1, Len(order)) |->
     [id |-> order[k], paidBy |-> ex[order[k]].paidBy, amount |-> ex[order[k]].amount,
      splits |-> SplitRows(sp, SplitsOf(sp, order[k]), rank)]]

FindEventExpenses(ex, sp, order, rank) ==
  [k \in 1..Len(order) |->
     [id |-> order[k], paidBy |-> ex[order[k]].paidBy, amount |-> ex[order[k]].amount,
      splits |-> SplitRows(sp, SplitsOf(sp, order[k]), rank)]]

\* An allUserIds that is a list rather than a Set; C3 tells it from the handler.
AddUserIdAgain(seq, u) == Append(seq, u)

AddUserId(seq, u) == IF \E i \in 1..Len(seq) : seq[i] = u THEN seq ELSE Append(seq, u)

RECURSIVE AddSplitUsers(_, _)
AddSplitUsers(seq, splits) ==
  IF splits = <<>> THEN seq
  ELSE AddSplitUsers(AddUserId(seq, splits[1].userId), Tail(splits))

\* allUserIds: a Set keeps insertion order.
RECURSIVE AllUserIds(_, _)
AllUserIds(seq, rows) ==
  IF rows = <<>> THEN seq
  ELSE AllUserIds(AddSplitUsers(AddUserId(seq, rows[1].paidBy), rows[1].splits), Tail(rows))

IndexOf(bal, u) == CHOOSE i \in 1..Len(bal) : bal[i].user = u

RECURSIVE AddOwed(_, _)
AddOwed(bal, splits) ==
  IF splits = <<>> THEN bal
  ELSE LET i == IndexOf(bal, splits[1].userId)
       IN  AddOwed([bal EXCEPT ![i].totalOwed = @ + splits[1].share], Tail(splits))

RECURSIVE AddExpenses(_, _)
AddExpenses(bal, rows) ==
  IF rows = <<>> THEN bal
  ELSE LET i == IndexOf(bal, rows[1].paidBy)
           paid == [bal EXCEPT ![i].totalPaid = @ + rows[1].amount]
       IN  AddExpenses(AddOwed(paid, rows[1].splits), Tail(rows))

\* A net balance with the operands exchanged; C2 tells it from the handler.
NetBalanceReversed(b) == b.totalOwed - b.totalPaid

NetBalance(b) == b.totalPaid - b.totalOwed

CalculateBalances(rows) ==
  LET ids == AllUserIds(<<>>, rows)
      zero == [i \in 1..Len(ids) |->
                 [user |-> ids[i], totalPaid |-> 0, totalOwed |-> 0, netBalance |-> 0]]
      summed == AddExpenses(zero, rows)
  IN  [i \in 1..Len(summed) |-> [summed[i] EXCEPT !.netBalance = NetBalance(summed[i])]]

Perms(S) == {f \in [1..Cardinality(S) -> S] : \A i, j \in DOMAIN f : f[i] = f[j] => i = j}

EventExpenseIds(ex, eventId) == {i \in LiveIds(ex) : ex[i].eventId = eventId}

GetBalance(eventId, order, rank) ==
  /\ order \in Perms(EventExpenseIds(expenses, eventId))
  /\ eventExpenses' = FindEventExpenses(expenses, expenseSplits, order, rank)
  /\ balance' = CalculateBalances(eventExpenses')
  /\ settlements' = <<>>
  /\ page' = Fetched
  /\ UNCHANGED <<db, reply, calls, others>>

\* ------------------------------------------------------------ queries
\* The three queries of the event page, each on behalf of a session user; the
\* request and what it was answered stay in the slot until the next request.
Answer(c, op, user, eventId, msg) ==
  /\ calls[c].pc \in {"idle", "done"}
  /\ calls' = [calls EXCEPT ![c] = Request(op, "done", user, eventId, 0, 0, <<>>, msg)]
  /\ reply' = msg
  /\ UNCHANGED others

\* event.getBalance: the findMany and the calculation, for whoever asks.
GetBalanceAs(c, user, eventId, order, rank) ==
  /\ order \in Perms(EventExpenseIds(expenses, eventId))
  /\ Answer(c, "getBalance", user, eventId, Ok)
  /\ eventExpenses' = FindEventExpenses(expenses, expenseSplits, order, rank)
  /\ balance' = CalculateBalances(eventExpenses')
  /\ settlements' = <<>>
  /\ page' = Fetched
  /\ UNCHANGED db

\* event.getById: the event, to its creator and its participants.
GetByIdAs(c, user, eventId) ==
  /\ Answer(c, "getById", user, eventId,
            IF events[eventId] = NoRow THEN ErrEventNotFound
            ELSE IF IsMember(events, eventParticipants, eventId, user) THEN Ok
            ELSE ErrNotAuthorizedView)
  /\ UNCHANGED <<db, view>>

\* expense.getEventExpenses: the expenses, to the creator and the participants.
GetEventExpensesAs(c, user, eventId) ==
  /\ Answer(c, "getEventExpenses", user, eventId,
            IF IsMember(events, eventParticipants, eventId, user) THEN Ok
            ELSE ErrNotAuthorizedView)
  /\ UNCHANGED <<db, view>>

\* ------------------------------------------------------------ EventBalanceView
\* Array.prototype.sort is stable: x goes behind every element that does not
\* sort after it.  The comparator is sign * (a.netBalance - b.netBalance).
RECURSIVE InsertSorted(_, _, _, _)
InsertSorted(sorted, x, bal, sign) ==
  IF sorted = <<>> THEN <<x>>
  ELSE IF sign * (bal[x].netBalance - bal[sorted[1]].netBalance) < 0 THEN <<x>> \o sorted
  ELSE <<sorted[1]>> \o InsertSorted(Tail(sorted), x, bal, sign)

RECURSIVE SortStable(_, _, _)
SortStable(seq, bal, sign) ==
  IF seq = <<>> THEN <<>>
  ELSE InsertSorted(SortStable(SubSeq(seq, 1, Len(seq) - 1), bal, sign), seq[Len(seq)],
                    bal, sign)

\* Creditors sorted smallest first; C16 tells it from the view.
CreditorsAscending(bal) ==
  LET IsCreditor(i) == bal[i].netBalance > Tolerance
  IN  SortStable(SelectSeq([i \in 1..Len(bal) |-> i], IsCreditor), bal, 1)

Creditors(bal) ==
  LET IsCreditor(i) == bal[i].netBalance > Tolerance
  IN  SortStable(SelectSeq([i \in 1..Len(bal) |-> i], IsCreditor), bal, -1)

\* A debtor filter that takes a debt of exactly 0.01; C17 tells it from the view.
DebtorsInclusive(bal) ==
  LET IsDebtor(i) == bal[i].netBalance <= -Tolerance
  IN  SortStable(SelectSeq([i \in 1..Len(bal) |-> i], IsDebtor), bal, 1)

\* A debtor filter without the 0.01 threshold; C18 tells it from the view.
DebtorsLoose(bal) ==
  LET IsDebtor(i) == bal[i].netBalance < 0
  IN  SortStable(SelectSeq([i \in 1..Len(bal) |-> i], IsDebtor), bal, 1)

\* A debtor list that keeps every record; C14 tells it from the view.
DebtorsAll(bal) == SortStable([i \in 1..Len(bal) |-> i], bal, 1)

Debtors(bal) ==
  LET IsDebtor(i) == bal[i].netBalance < -Tolerance
  IN  SortStable(SelectSeq([i \in 1..Len(bal) |-> i], IsDebtor), bal, 1)

\* A settlement loop that goes on while any credit remains; C15 tells it from
\* the view.
RECURSIVE SettleCreditorEager(_, _, _, _, _, _)
SettleCreditorEager(creditor, remaining, debtors, debtorIndex, bal, out) ==
  IF remaining > 0 /\ debtorIndex <= Len(debtors)
  THEN LET debtor == debtors[debtorIndex]
           settlementAmount == Min(remaining, Abs(bal[debtor].netBalance))
           paid == [bal EXCEPT ![debtor].netBalance = @ + settlementAmount]
           next == IF Abs(paid[debtor].netBalance) < Tolerance
                   THEN debtorIndex + 1 ELSE debtorIndex
       IN  SettleCreditorEager(creditor, remaining - settlementAmount, debtors, next, paid,
                               Append(out, [from |-> bal[debtor].user,
                                            to |-> bal[creditor].user,
                                            amount |-> settlementAmount]))
  ELSE [debtorIndex |-> debtorIndex, balance |-> bal, settlements |-> out]

\* The settlement loop.  A debtor is an element of the balance array itself, so
\* debtor.netBalance += settlementAmount writes into the array.
RECURSIVE SettleCreditor(_, _, _, _, _, _)
SettleCreditor(creditor, remaining, debtors, debtorIndex, bal, out) ==
  IF remaining > Tolerance /\ debtorIndex <= Len(debtors)
  THEN LET debtor == debtors[debtorIndex]
           settlementAmount == Min(remaining, Abs(bal[debtor].netBalance))
           paid == [bal EXCEPT ![debtor].netBalance = @ + settlementAmount]
           next == IF Abs(paid[debtor].netBalance) < Tolerance
                   THEN debtorIndex + 1 ELSE debtorIndex
       IN  SettleCreditor(creditor, remaining - settlementAmount, debtors, next, paid,
                          Append(out, [from |-> bal[debtor].user, to |-> bal[creditor].user,
                                       amount |-> settlementAmount]))
  ELSE [debtorIndex |-> debtorIndex, balance |-> bal, settlements |-> out]

RECURSIVE SettleAll(_, _, _, _, _)
SettleAll(creditors, debtors, debtorIndex, bal, out) ==
  IF creditors = <<>> THEN [balance |-> bal, settlements |-> out]
  ELSE LET r == SettleCreditor(creditors[1], bal[creditors[1]].netBalance, debtors,
                               debtorIndex, bal, out)
       IN  SettleAll(Tail(creditors), debtors, r.debtorIndex, r.balance, r.settlements)

Planner(bal) == SettleAll(Creditors(bal), Debtors(bal), 1, bal, <<>>)

\* The badge of a summary card, read from the record after the loop has run.
CardLabel(b) ==
  IF Abs(b.netBalance) < Tolerance THEN "Settled"
  ELSE IF b.netBalance > 0 THEN "+" ELSE "-"

Render ==
  /\ page # Loading
  /\ balance # <<>>
  /\ LET r == Planner(balance)
     IN  /\ balance' = r.balance
         /\ settlements' = r.settlements
  /\ page' = Rendered
  /\ UNCHANGED <<db, reply, eventExpenses, calls, others>>

Init ==
  /\ events = [e \in EventIds |-> [createdBy |-> "alice", name |-> "n1"]]
  /\ eventParticipants = [e \in EventIds |-> <<"alice", "bob", "carol">>]
  /\ expenses = [i \in ExpenseIds |-> NoRow]
  /\ expenseSplits = EmptyBag
  /\ nextId = 1
  /\ reply = Ok
  /\ page = Loading
  /\ eventExpenses = <<>>
  /\ balance = <<>>
  /\ settlements = <<>>
  /\ calls = [c \in CallIds |-> Idle]
  /\ friends = EmptyBag
  /\ friendCalls = [c \in CallIds |-> NoFriendCall]
  /\ loop = NoLoop

\* The event page: event expenses are written, the balance is fetched and shown.
Next ==
  \/ \E u \in Sessions, e \in EventIds, a \in Amounts, s \in SplitInputs :
       CreateEventExpense(u, e, a, s)
  \/ \E u \in Sessions, i \in ExpenseIds, a \in Amounts, s \in SplitInputs :
       UpdateEventExpense(u, i, a, s)
  \/ \E e \in EventIds, rank \in Perms(Users) :
       \E order \in Perms(EventExpenseIds(expenses, e)) : GetBalance(e, order, rank)
  \/ Render

Spec == Init /\ [][Next]_vars

\* The API alone: every expense handler, any user id in a split list.
NextApi ==
  \/ \E u \in Sessions, e \in EventIds, a \in Amounts, s \in SplitInputsAny :
       CreateEventExpense(u, e, a, s)
  \/ \E u \in Sessions, i \in ExpenseIds, a \in Amounts, s \in SplitInputsAny :
       UpdateEventExpense(u, i, a, s)
  \/ \E u \in Sessions, a \in Amounts : Create(u, a)
  \/ \E u \in Sessions, i \in ExpenseIds, a \in Amounts : Update(u, i, a)
  \/ \E u \in Sessions, i \in ExpenseIds : Delete(u, i)

SpecApi == Init /\ [][NextApi]_vars

\* Requests sent while another is between two of its statements.
StmtUsers == {"bob", "ghost"}
StmtAmounts == {UnitsPerCent, 2 * UnitsPerCent}
StmtSplitInputs == [1..1 -> [userId : StmtUsers, share : StmtAmounts]]

\* Creation, statement by statement, next to the getBalance query.
NextCreate ==
  \/ \E c \in CallIds, e \in EventIds, a \in StmtAmounts, s \in StmtSplitInputs :
       BeginCreateEventExpense(c, "alice", e, a, s)
  \/ \E c \in CallIds, a \in StmtAmounts : BeginCreate(c, "alice", a)
  \/ \E c \in CallIds : InsertExpenseStep(c)
  \/ \E c \in CallIds : InsertSplitsStep(c)
  \/ \E c \in CallIds : Return(c)
  \/ \E e \in EventIds, rank \in Perms(Users) :
       \E order \in Perms(EventExpenseIds(expenses, e)) : GetBalance(e, order, rank)

SpecCreate == Init /\ [][NextCreate]_vars

\* alice has created an event expense of one cent owed by bob; at most
\* MaxCalls updateEventExpense requests are then sent, none waiting for another.
InitUpdate ==
  /\ events = [e \in EventIds |-> [createdBy |-> "alice", name |-> "n1"]]
  /\ eventParticipants = [e \in EventIds |-> <<"alice", "bob", "carol">>]
  /\ expenses = InsertExpense([i \in ExpenseIds |-> NoRow], 1, "e1", UnitsPerCent, "alice")
  /\ expenseSplits = InsertSplits(EmptyBag, 1, <<[userId |-> "bob", share |-> UnitsPerCent]>>)
  /\ nextId = 2
  /\ reply = Ok
  /\ page = Loading
  /\ eventExpenses = <<>>
  /\ balance = <<>>
  /\ settlements = <<>>
  /\ calls = [c \in CallIds |-> Idle]
  /\ friends = EmptyBag
  /\ friendCalls = [c \in CallIds |-> NoFriendCall]
  /\ loop = NoLoop

NextUpdate ==
  \/ \E c \in CallIds, u \in Sessions, i \in ExpenseIds, a \in StmtAmounts,
        s \in StmtSplitInputs :
       BeginUpdateEventExpense(c, u, i, a, s)
  \/ \E c \in CallIds : UpdateExpenseStep(c)
  \/ \E c \in CallIds : DeleteSplitsStep(c)
  \/ \E c \in CallIds : InsertSplitsStep(c)

SpecUpdate == InitUpdate /\ [][NextUpdate]_vars

\* The queries of the event page, asked by participants and by carol, who has
\* a session and is neither the creator nor a participant of the event.
InitQuery ==
  /\ events = [e \in EventIds |-> [createdBy |-> "alice", name |-> "n1"]]
  /\ eventParticipants = [e \in EventIds |-> <<"alice", "bob">>]
  /\ expenses = [i \in ExpenseIds |-> NoRow]
  /\ expenseSplits = EmptyBag
  /\ nextId = 1
  /\ reply = Ok
  /\ page = Loading
  /\ eventExpenses = <<>>
  /\ balance = <<>>
  /\ settlements = <<>>
  /\ calls = [c \in CallIds |-> Idle]
  /\ friends = EmptyBag
  /\ friendCalls = [c \in CallIds |-> NoFriendCall]
  /\ loop = NoLoop

NextQuery ==
  \/ \E e \in EventIds, a \in StmtAmounts, s \in StmtSplitInputs :
       CreateEventExpense("alice", e, a, s)
  \/ \E c \in CallIds, u \in Users, e \in EventIds, rank \in Perms(Users) :
       \E order \in Perms(EventExpenseIds(expenses, e)) : GetBalanceAs(c, u, e, order, rank)
  \/ \E c \in CallIds, u \in Users, e \in EventIds : GetByIdAs(c, u, e)
  \/ \E c \in CallIds, u \in Users, e \in EventIds : GetEventExpensesAs(c, u, e)

SpecQuery == InitQuery /\ [][NextQuery]_vars

\* EventBalanceView alone, as a function of its balance prop: any list of one
\* record per user.  The view never looks at who a record belongs to, so one
\* order of the users is drawn; the net balances take every value up to MaxNet.
BalanceRecord(u, net) ==
  [user |-> u, totalPaid |-> IF net > 0 THEN net ELSE 0,
   totalOwed |-> IF net < 0 THEN -net ELSE 0, netBalance |-> net]

BalanceInputs ==
  UNION {{[i \in 1..n |-> BalanceRecord(UserOrder[i], nets[i])] :
            nets \in [1..n -> (-MaxNet)..MaxNet]} : n \in 1..Cardinality(Users)}

InitPlanner ==
  /\ events = [e \in EventIds |-> [createdBy |-> "alice", name |-> "n1"]]
  /\ eventParticipants = [e \in EventIds |-> <<"alice", "bob", "carol">>]
  /\ expenses = [i \in ExpenseIds |-> NoRow]
  /\ expenseSplits = EmptyBag
  /\ nextId = 1
  /\ reply = Ok
  /\ page = Fetched
  /\ eventExpenses = <<>>
  /\ balance \in BalanceInputs
  /\ settlements = <<>>
  /\ calls = [c \in CallIds |-> Idle]
  /\ friends = EmptyBag
  /\ friendCalls = [c \in CallIds |-> NoFriendCall]
  /\ loop = NoLoop

NextPlanner == Render

SpecPlanner == InitPlanner /\ [][NextPlanner]_vars

\* ------------------------------------------------------------ the loop, step by step
\* EventBalanceView's settlement loop one iteration at a time: the position of
\* the for, the position of the while and the two cursors are in loop, the
\* array the debtors point into is balance, the output is settlements.

\* A cursor that stays on a debtor who has paid everything; C21 tells it from
\* the view.
NextDebtorIndexStuck(debtorIndex, net) == debtorIndex

\* if (Math.abs(debtor.netBalance) < 0.01) debtorIndex++
NextDebtorIndex(debtorIndex, net) ==
  IF Abs(net) < Tolerance THEN debtorIndex + 1 ELSE debtorIndex

\* The two filters and sorts, the empty output and let debtorIndex = 0.
BeginSettle ==
  /\ page = Fetched
  /\ balance # <<>>
  /\ loop.pc = "idle"
  /\ loop' = [pc |-> "for", creditors |-> Creditors(balance), debtors |-> Debtors(balance),
              creditorIndex |-> 0, remaining |-> 0, debtorIndex |-> 1]
  /\ settlements' = <<>>
  /\ UNCHANGED <<db, reply, calls, page, eventExpenses, balance, friends, friendCalls>>

\* for (const creditor of creditors): the next creditor with let remaining =
\* creditor.netBalance, or the end of the loop and the render.
ForStep ==
  /\ loop.pc = "for"
  /\ IF loop.creditorIndex < Len(loop.creditors)
     THEN /\ loop' = [loop EXCEPT
                        !.creditorIndex = @ + 1,
                        !.remaining = balance[loop.creditors[loop.creditorIndex + 1]].netBalance,
                        !.pc = "while"]
          /\ UNCHANGED page
     ELSE /\ loop' = [loop EXCEPT !.pc = "done"]
          /\ page' = Rendered
  /\ UNCHANGED <<db, reply, calls, eventExpenses, balance, settlements, friends, friendCalls>>

\* while (remaining > 0.01 && debtorIndex < debtors.length): one run of the
\* body, or the way out of the while.
WhileStep ==
  /\ loop.pc = "while"
  /\ IF loop.remaining > Tolerance /\ loop.debtorIndex <= Len(loop.debtors)
     THEN LET creditor == loop.creditors[loop.creditorIndex]
              debtor == loop.debtors[loop.debtorIndex]
              settlementAmount == Min(loop.remaining, Abs(balance[debtor].netBalance))
              net == balance[debtor].netBalance + settlementAmount
          IN  /\ settlements' = Append(settlements, [from |-> balance[debtor].user,
                                                      to |-> balance[creditor].user,
                                                      amount |-> settlementAmount])
              /\ balance' = [balance EXCEPT ![debtor].netBalance = net]
              /\ loop' = [loop EXCEPT !.remaining = @ - settlementAmount,
                                      !.debtorIndex = NextDebtorIndex(@, net)]
     ELSE /\ loop' = [loop EXCEPT !.pc = "for"]
          /\ UNCHANGED <<balance, settlements>>
  /\ UNCHANGED <<db, reply, calls, page, eventExpenses, friends, friendCalls>>

\* One render of the view over every small balance list; the loop is
\* synchronous code, so a step that can be taken is taken.
NextLoop == BeginSettle \/ ForStep \/ WhileStep

SpecLoop == InitPlanner /\ [][NextLoop]_vars /\ WF_vars(NextLoop)

\* ------------------------------------------------------------ EventExpenseForm
\* The amounts typed into the form: whole cents.
FormAmounts == {c * UnitsPerCent : c \in 1..MaxCents}

\* sharePerPerson = watchedAmount / event.participants.length, one split per
\* participant row of the event.
EvenSplits(amount, parts) ==
  [i \in 1..Len(parts) |-> [userId |-> parts[i], share |-> amount \div Len(parts)]]

\* onSubmit of a new expense with 'split evenly' on.  The form has the event
\* from getById, so the user is its creator or a participant.  A share is a
\* whole number of model units: the amounts whose share is not are left out.
SubmitEvenly(user, eventId, amount) ==
  /\ IsMember(events, eventParticipants, eventId, user)
  /\ eventParticipants[eventId] # <<>>
  /\ amount % Len(eventParticipants[eventId]) = 0
  /\ CreateEventExpense(user, eventId, amount, EvenSplits(amount, eventParticipants[eventId]))

\* alice's event with one to four participants, herself the first.
Everyone == <<"alice", "bob", "carol", "dave">>

InitForm ==
  /\ events = [e \in EventIds |-> [createdBy |-> "alice", name |-> "n1"]]
  /\ eventParticipants \in {[e \in EventIds |-> SubSeq(Everyone, 1, n)] : n \in 1..Len(Everyone)}
  /\ expenses = [i \in ExpenseIds |-> NoRow]
  /\ expenseSplits = EmptyBag
  /\ nextId = 1
  /\ reply = Ok
  /\ page = Loading
  /\ eventExpenses = <<>>
  /\ balance = <<>>
  /\ settlements = <<>>
  /\ calls = [c \in CallIds |-> Idle]
  /\ friends = EmptyBag
  /\ friendCalls = [c \in CallIds |-> NoFriendCall]
  /\ loop = NoLoop

NextForm == \E e \in EventIds, a \in FormAmounts : SubmitEvenly("alice", e, a)

SpecForm == InitForm /\ [][NextForm]_vars

\* ------------------------------------------------------------ EventExpenseList
\* handleDelete once the user has confirmed: expense.delete on an expense of
\* the list, and the invalidation of getBalance when it succeeded.  The button
\* is shown on every expense of the event, to whoever sees the list.
HandleDelete(user, id) ==
  /\ expenses[id] # NoRow
  /\ expenses[id].eventId # NoEvent
  /\ IsMember(events, eventParticipants, expenses[id].eventId, user)
  /\ Respond(DeleteCall(user, id), TRUE)

\* The expenses of an event whose participants are alice and bob: written,
\* rewritten and deleted from the page by both, with splits of one cent that
\* name any user.
DebtSplits == [1..1 -> [userId : Users, share : {UnitsPerCent}]]

NextDebts ==
  \/ \E u \in Sessions, e \in EventIds, s \in DebtSplits :
       CreateEventExpense(u, e, UnitsPerCent, s)
  \/ \E u \in Sessions, i \in ExpenseIds, s \in DebtSplits :
       UpdateEventExpense(u, i, UnitsPerCent, s)
  \/ \E u \in Sessions, i \in ExpenseIds : HandleDelete(u, i)
  \/ \E e \in EventIds, rank \in Perms(Users) :
       \E order \in Perms(EventExpenseIds(expenses, e)) : GetBalance(e, order, rank)

SpecDebts == InitQuery /\ [][NextDebts]_vars

\* ------------------------------------------------------------ eventRouter
\* Event names, and participantIds: a non-empty array of strings, which may
\* repeat an id and may name no user.
Names == {"n1", "n2"}
IdLists == UNION {[1..n -> UserIds] : n \in 1..MaxIds}

\* [...new Set(ids)]: the first occurrence of every id, in order.
RECURSIVE UniqueIds(_, _)
UniqueIds(seq, ids) ==
  IF ids = <<>> THEN seq ELSE UniqueIds(AddUserId(seq, ids[1]), Tail(ids))

Contains(seq, u) == \E i \in 1..Len(seq) : seq[i] = u

\* What an event handler leaves behind.
EventResult(ev, parts, ex, sp, msg) ==
  [events |-> ev, eventParticipants |-> parts, expenses |-> ex, expenseSplits |-> sp,
   reply |-> msg]

EventThrown(msg) == EventResult(events, eventParticipants, expenses, expenseSplits, msg)

\* event_participants.user_id references users: an insert that names an id
\* of no user fails as a whole.
ParticipantsInsertable(ids) == \A i \in 1..Len(ids) : ids[i] \in Registered

\* event.create: the event row, then one participant row per distinct id, the
\* creator's first; the two inserts are two statements.
EventCreateCall(user, eventId, name, ids) ==
  LET ev == [events EXCEPT ![eventId] = [createdBy |-> user, name |-> name]]
      uniqueParticipantIds == UniqueIds(<<>>, <<user>> \o ids)
  IN  IF ParticipantsInsertable(uniqueParticipantIds)
      THEN EventResult(ev, [eventParticipants EXCEPT ![eventId] = uniqueParticipantIds],
                       expenses, expenseSplits, Ok)
      ELSE EventResult(ev, eventParticipants, expenses, expenseSplits, ErrForeignKey)

\* A check that lets every participant through; C29 tells it from the
\* handlers.
OwnEventOrJoined(ev, eventId, user) ==
  /\ ev[eventId] # NoRow
  /\ \/ ev[eventId].createdBy = user
     \/ Contains(eventParticipants[eventId], user)

\* findFirst where id = eventId and createdBy = ctx.session.user.id
OwnEvent(ev, eventId, user) ==
  /\ ev[eventId] # NoRow
  /\ ev[eventId].createdBy = user

EventUpdateCall(user, eventId, name) ==
  IF ~OwnEvent(events, eventId, user) THEN EventThrown(ErrEventUpdate)
  ELSE EventResult([events EXCEPT ![eventId].name = name], eventParticipants, expenses,
                   expenseSplits, Ok)

\* delete from events: the participants, the expenses and their splits go by
\* cascade.
EventDeleteCall(user, eventId) ==
  IF ~OwnEvent(events, eventId, user) THEN EventThrown(ErrEventDelete)
  ELSE LET gone == EventExpenseIds(expenses, eventId)
           keep == {r \in BagToSet(expenseSplits) : r.expenseId \notin gone}
       IN  EventResult([events EXCEPT ![eventId] = NoRow],
                       [eventParticipants EXCEPT ![eventId] = <<>>],
                       [i \in ExpenseIds |-> IF i \in gone THEN NoRow ELSE expenses[i]],
                       [r \in keep |-> expenseSplits[r]], Ok)

AddParticipantsCall(user, eventId, ids) ==
  IF ~OwnEvent(events, eventId, user) THEN EventThrown(ErrEventAdd)
  ELSE LET existingUserIds == eventParticipants[eventId]
           IsNew(id) == ~Contains(existingUserIds, id)
           newParticipantIds == SelectSeq(ids, IsNew)
       IN  IF newParticipantIds = <<>> THEN EventThrown(ErrAllPresent)
           ELSE IF ~ParticipantsInsertable(newParticipantIds) THEN EventThrown(ErrForeignKey)
           ELSE EventResult(events,
                            [eventParticipants EXCEPT ![eventId] = @ \o newParticipantIds],
                            expenses, expenseSplits, Ok)

RemoveParticipantsCall(user, eventId, ids) ==
  IF ~OwnEvent(events, eventId, user) THEN EventThrown(ErrEventRemove)
  ELSE LET NotSelf(id) == id # user
           filteredParticipantIds == SelectSeq(ids, NotSelf)
           Stays(id) == ~Contains(filteredParticipantIds, id)
       IN  IF filteredParticipantIds = <<>> THEN EventThrown(ErrRemoveCreator)
           ELSE EventResult(events,
                            [eventParticipants EXCEPT ![eventId] = SelectSeq(@, Stays)],
                            expenses, expenseSplits, Ok)

EventRespond(r) ==
  /\ events' = r.events
  /\ eventParticipants' = r.eventParticipants
  /\ expenses' = r.expenses
  /\ expenseSplits' = r.expenseSplits
  /\ reply' = r.reply
  /\ UNCHANGED <<nextId, view, calls, others>>

\* A new event takes an id that no row has.
EventCreate(user, eventId, name, ids) ==
  /\ events[eventId] = NoRow
  /\ EventRespond(EventCreateCall(user, eventId, name, ids))

EventUpdate(user, eventId, name) == EventRespond(EventUpdateCall(user, eventId, name))

EventDelete(user, eventId) == EventRespond(EventDeleteCall(user, eventId))

AddParticipants(user, eventId, ids) == EventRespond(AddParticipantsCall(user, eventId, ids))

RemoveParticipants(user, eventId, ids) ==
  EventRespond(RemoveParticipantsCall(user, eventId, ids))

\* No event yet.  Events are created, renamed, filled, emptied and deleted by
\* any user, and bob's cent is charged to them by alice.
InitEvent ==
  /\ events = [e \in EventIds |-> NoRow]
  /\ eventParticipants = [e \in EventIds |-> <<>>]
  /\ expenses = [i \in ExpenseIds |-> NoRow]
  /\ expenseSplits = EmptyBag
  /\ nextId = 1
  /\ reply = Ok
  /\ page = Loading
  /\ eventExpenses = <<>>
  /\ balance = <<>>
  /\ settlements = <<>>
  /\ calls = [c \in CallIds |-> Idle]
  /\ friends = EmptyBag
  /\ friendCalls = [c \in CallIds |-> NoFriendCall]
  /\ loop = NoLoop

NextEvent ==
  \/ \E u \in Users, e \in EventIds, n \in Names, ids \in IdLists : EventCreate(u, e, n, ids)
  \/ \E u \in Users, e \in EventIds, n \in Names : EventUpdate(u, e, n)
  \/ \E u \in Users, e \in EventIds : EventDelete(u, e)
  \/ \E u \in Users, e \in EventIds, ids \in IdLists : AddParticipants(u, e, ids)
  \/ \E u \in Users, e \in EventIds, ids \in IdLists : RemoveParticipants(u, e, ids)
  \/ \E e \in EventIds :
       CreateEventExpense("alice", e, UnitsPerCent, <<[userId |-> "bob", share |-> UnitsPerCent]>>)

SpecEvent == InitEvent /\ [][NextEvent]_vars

\* ------------------------------------------------------------ friendRouter
\* users.email is unique: every user has one address, and one address of the
\* model belongs to nobody.
EmailOf ==
  [u \in Registered |->
     CASE u = "alice" -> "alice@example.com"
       [] u = "bob" -> "bob@example.com"
       [] u = "carol" -> "carol@example.com"
       [] OTHER -> "dave@example.com"]

Emails == {EmailOf[u] : u \in Users} \cup {"nobody@example.com"}

\* A row of the friends table; the table is a bag of them (the id column is
\* what tells two equal rows apart).
Friendship(user, friendUser) == [userId |-> user, friendUserId |-> friendUser]

\* The rows the or(...) of addByEmail and remove matches: either direction.
Between(fr, a, b) == BagToSet(fr) \cap {Friendship(a, b), Friendship(b, a)}

\* friend.getAll: the friend of every row whose user_id is the session user,
\* one entry per row, listed in the model's order of the users.
RECURSIVE ListFriends(_, _, _)
ListFriends(fr, user, k) ==
  IF k > Len(UserOrder) THEN <<>>
  ELSE LET r == Friendship(user, UserOrder[k])
           n == IF r \in BagToSet(fr) THEN fr[r] ELSE 0
       IN  [i \in 1..n |-> UserOrder[k]] \o ListFriends(fr, user, k + 1)

GetAll(fr, user) == ListFriends(fr, user, 1)

FriendRequest(op, pc, user, email, friendUser, msg, list) ==
  [op |-> op, pc |-> pc, user |-> user, email |-> email, friendUser |-> friendUser,
   reply |-> msg, list |-> list]

FriendGetAll(c, user) ==
  /\ friendCalls[c].pc \in {"idle", "done"}
  /\ friendCalls' = [friendCalls EXCEPT
                       ![c] = FriendRequest("getAll", "done", user, "", "", Ok,
                                            GetAll(friends, user))]
  /\ reply' = Ok
  /\ UNCHANGED <<db, view, calls, friends, loop>>

\* friend.addByEmail, one statement at a time: no transaction and no unique
\* constraint stand between the lookup of the friendship and the insert.
BeginAddByEmail(c, user, email) ==
  /\ friendCalls[c].pc \in {"idle", "done"}
  /\ friendCalls' = [friendCalls EXCEPT
                       ![c] = FriendRequest("addByEmail", "findUser", user, email, "", "", <<>>)]
  /\ UNCHANGED <<db, view, calls, reply, friends, loop>>

FriendThrow(c, msg) ==
  /\ friendCalls' = [friendCalls EXCEPT ![c].pc = "done", ![c].reply = msg]
  /\ reply' = msg

FindUserStep(c) ==
  /\ friendCalls[c].pc = "findUser"
  /\ LET found == {u \in Registered : EmailOf[u] = friendCalls[c].email}
     IN  IF found = {} THEN FriendThrow(c, ErrUserNotFound)
         ELSE LET friendUser == CHOOSE u \in found : TRUE
              IN  IF friendUser = friendCalls[c].user THEN FriendThrow(c, ErrSelf)
                  ELSE /\ friendCalls' = [friendCalls EXCEPT ![c].pc = "findFriendship",
                                                              ![c].friendUser = friendUser]
                       /\ UNCHANGED reply
  /\ UNCHANGED <<db, view, calls, friends, loop>>

FindFriendshipStep(c) ==
  /\ friendCalls[c].pc = "findFriendship"
  /\ IF Between(friends, friendCalls[c].user, friendCalls[c].friendUser) # {}
     THEN FriendThrow(c, ErrFriendshipExists)
     ELSE /\ friendCalls' = [friendCalls EXCEPT ![c].pc = "insertFriend"]
          /\ UNCHANGED reply
  /\ UNCHANGED <<db, view, calls, friends, loop>>

InsertFriendStep(c) ==
  /\ friendCalls[c].pc = "insertFriend"
  /\ friends' = friends (+) SetToBag({Friendship(friendCalls[c].user, friendCalls[c].friendUser)})
  /\ friendCalls' = [friendCalls EXCEPT ![c].pc = "done", ![c].reply = Ok]
  /\ reply' = Ok
  /\ UNCHANGED <<db, view, calls, loop>>

\* friend.remove: findFirst gives one of the rows between the two users, and
\* that row is deleted by its id.
Remove(c, user, friendId) ==
  /\ friendCalls[c].pc \in {"idle", "done"}
  /\ IF Between(friends, user, friendId) = {}
     THEN /\ friendCalls' = [friendCalls EXCEPT
                               ![c] = FriendRequest("remove", "done", user, "", friendId,
                                                    ErrFriendshipNotFound, <<>>)]
          /\ reply' = ErrFriendshipNotFound
          /\ UNCHANGED friends
     ELSE \E friendship \in Between(friends, user, friendId) :
            /\ friends' = friends (-) SetToBag({friendship})
            /\ friendCalls' = [friendCalls EXCEPT
                                 ![c] = FriendRequest("remove", "done", user, "", friendId,
                                                      Ok, <<>>)]
            /\ reply' = Ok
  /\ UNCHANGED <<db, view, calls, loop>>

\* alice and bob add and remove friends and list them, MaxCalls requests at
\* a time.
NextFriend ==
  \/ \E c \in CallIds, u \in Sessions, m \in Emails : BeginAddByEmail(c, u, m)
  \/ \E c \in CallIds : FindUserStep(c)
  \/ \E c \in CallIds : FindFriendshipStep(c)
  \/ \E c \in CallIds : InsertFriendStep(c)
  \/ \E c \in CallIds, u \in Sessions, f \in Users : Remove(c, u, f)
  \/ \E c \in CallIds, u \in Sessions : FriendGetAll(c, u)

SpecFriend == Init /\ [][NextFriend]_vars

\* ============================================================ properties
\* Sums stated over the stored tables and over lists, by index.
RECURSIVE SumAmounts(_, _)
SumAmounts(ex, ids) ==
  IF ids = {} THEN 0
  ELSE LET i == CHOOSE x \in ids : TRUE
       IN  ex[i].amount + SumAmounts(ex, ids \ {i})

StoredPaid(u) ==
  SumAmounts(expenses, {i \in EventExpenseIds(expenses, "e1") : expenses[i].paidBy = u})

StoredOwed(u) ==
  BagSum(expenseSplits, {r \in BagToSet(expenseSplits) :
                           /\ r.expenseId \in EventExpenseIds(expenses, "e1")
                           /\ r.userId = u})

StoredUsers ==
  {expenses[i].paidBy : i \in EventExpenseIds(expenses, "e1")}
  \cup {r.userId : r \in {x \in BagToSet(expenseSplits) :
                            x.expenseId \in EventExpenseIds(expenses, "e1")}}

RECURSIVE SumField(_, _, _)
SumField(list, field, n) ==
  IF n = 0 THEN 0 ELSE list[n][field] + SumField(list, field, n - 1)

Total(list, field) == SumField(list, field, Len(list))

\* The net balance of user u once every settlement of the list has been paid.
RECURSIVE Settled(_, _, _)
Settled(net, list, u) ==
  IF list = <<>> THEN net
  ELSE Settled(net + (IF list[1].from = u THEN list[1].amount ELSE 0)
                   - (IF list[1].to = u THEN list[1].amount ELSE 0),
               Tail(list), u)

SnapshotExact ==
  \A k \in 1..Len(eventExpenses) :
    Total(eventExpenses[k].splits, "share") = eventExpenses[k].amount

RECURSIVE SumPositive(_, _)
SumPositive(list, n) ==
  IF n = 0 THEN 0
  ELSE (IF list[n].netBalance > 0 THEN list[n].netBalance ELSE 0) + SumPositive(list, n - 1)

\* C1 (as claimed): whenever getBalance has answered from expenses whose
\* shares sum to their amounts, paying every settlement the planner emits for
\* that balance list leaves every participant within 0.01 of zero.
C1_SettlementCorrectness ==
  (page = Fetched /\ SnapshotExact) =>
    LET plan == Planner(balance).settlements
    IN  \A i \in 1..Len(balance) :
          Abs(Settled(balance[i].netBalance, plan, balance[i].user)) <= Tolerance

C3_Aggregation ==
  page = Fetched =>
    /\ {balance[i].user : i \in 1..Len(balance)} = StoredUsers
    /\ \A i, j \in 1..Len(balance) : balance[i].user = balance[j].user => i = j
    /\ \A i \in 1..Len(balance) :
         /\ balance[i].totalPaid = StoredPaid(balance[i].user)
         /\ balance[i].totalOwed = StoredOwed(balance[i].user)
         /\ balance[i].netBalance = balance[i].totalPaid - balance[i].totalOwed

\* C3 witness: a fetched balance of three users over two expenses, in which a
\* user paid one expense and owes shares in both, and a user never paid.
C3_Witness ==
  /\ page = Fetched
  /\ Len(eventExpenses) = 2
  /\ Len(balance) = 3
  /\ \E i \in 1..Len(balance) :
       /\ balance[i].totalPaid > 0
       /\ balance[i].totalOwed > Tolerance
  /\ \E i \in 1..Len(balance) :
       /\ balance[i].totalPaid = 0
       /\ balance[i].totalOwed > 0

\* C4 (as claimed): for a balance list whose net balances sum to zero, the
\* settlement amounts the planner emits sum to the sum of the positive net
\* balances.
C4_SettlementTotal ==
  (page = Fetched /\ Total(balance, "netBalance") = 0) =>
    Total(Planner(balance).settlements, "amount") = SumPositive(balance, Len(balance))

\* C5 (as claimed): a render of EventBalanceView leaves every record of the
\* balance list as it was.
C5_PlannerReadsOnly ==
  [][(page # Loading /\ page' = Rendered) => balance' = balance]_vars

\* C6 (as claimed): a second render with the same balance prop emits the same
\* sequence of settlements as the render before it.
C6_PlannerDeterminism ==
  [][(page = Rendered /\ page' = Rendered) => settlements' = settlements]_vars

\* C7 (as claimed): after any sequence of completed expense calls, every stored
\* expense has at least one split and its shares sum to its amount within 0.01.
C7_ShareSumInvariant ==
  \A i \in LiveIds(expenses) :
    /\ SplitCount(expenseSplits, i) >= 1
    /\ Abs(ShareSum(expenseSplits, i) - expenses[i].amount) <= Tolerance

\* C8: createEventExpense (by a member of the event) and updateEventExpense (by
\* the payer of the expense) called with shares that differ from the amount by
\* more than 0.01 throw 'Splits must add up to the total amount' and leave the
\* stored expenses and splits as they were.
C8_WriteTimeRejection ==
  \A u \in Sessions, a \in Amounts, s \in SplitInputs :
    Abs(Total(s, "share") - a) > Tolerance =>
      /\ \A e \in EventIds :
           IsMember(events, eventParticipants, e, u) =>
             LET r == CreateEventExpenseCall(u, e, a, s)
             IN  /\ r.reply = ErrSplits
                 /\ r.expenses = expenses
                 /\ r.expenseSplits = expenseSplits
      /\ \A i \in ExpenseIds :
           OwnExpense(expenses, i, u) =>
             LET r == UpdateEventExpenseCall(u, i, a, s)
             IN  /\ r.reply = ErrSplits
                 /\ r.expenses = expenses
                 /\ r.expenseSplits = expenseSplits

\* C8 witness: an update was just refused with the message while an expense
\* with its splits is stored.
C8_Witness ==
  /\ reply = ErrSplits
  /\ \E i \in LiveIds(expenses) : SplitCount(expenseSplits, i) >= 1

\* C9 (as claimed): in no reachable state, the states between the statements
\* of a create or createEventExpense call included, is an expense stored
\* without at least one split whose shares balance its amount, and getBalance
\* never reads an expense whose splits are missing.
C9_AtomicCreation ==
  /\ \A i \in LiveIds(expenses) :
       /\ SplitCount(expenseSplits, i) >= 1
       /\ Abs(ShareSum(expenseSplits, i) - expenses[i].amount) <= Tolerance
  /\ page = Fetched => \A k \in 1..Len(eventExpenses) : eventExpenses[k].splits # <<>>

\* C10 (as claimed): once two updateEventExpense calls on the same expense have
\* both completed, the expense has the amount and the split set of exactly one
\* of the two calls, and its shares sum to its amount within 0.01.
C10_SerializedWrites ==
  \A c1, c2 \in CallIds :
    ( /\ c1 # c2
      /\ calls[c1].op = "updateEventExpense" /\ calls[c2].op = "updateEventExpense"
      /\ calls[c1].pc = "done" /\ calls[c2].pc = "done"
      /\ calls[c1].reply = Ok /\ calls[c2].reply = Ok
      /\ calls[c1].id = calls[c2].id )
    => LET id == calls[c1].id
       IN  /\ \E c \in {c1, c2} :
                /\ expenses[id].amount = ToDecimal(calls[c].amount)
                /\ [r \in SplitsOf(expenseSplits, id) |-> expenseSplits[r]]
                     = RowsBag(id, calls[c].splits)
           /\ Abs(ShareSum(expenseSplits, id) - expenses[id].amount) <= Tolerance

\* The whole-cent value nearest to x, a half going up.
NearestCent(x) ==
  CHOOSE c \in 0..(x + UnitsPerCent) :
    /\ c % UnitsPerCent = 0
    /\ 2 * (c - x) <= UnitsPerCent
    /\ 2 * (x - c) < UnitsPerCent

\* How many splits of user v with share x the table sp holds for expense id.
StoredCount(sp, id, v, x) ==
  LET r == [expenseId |-> id, userId |-> v, share |-> x]
  IN  IF r \in BagToSet(sp) THEN sp[r] ELSE 0

\* C11 (as claimed): after a successful updateEventExpense(id, amount, splits)
\* the stored splits of the expense are exactly the input splits, with the
\* input shares, and the stored amount is the input amount.
C11_ReplaceExact ==
  \A u \in Sessions, i \in ExpenseIds, a \in Amounts, s \in SplitInputs :
    LET r == UpdateEventExpenseCall(u, i, a, s)
    IN  r.reply = Ok =>
          /\ r.expenses[i].amount = a
          /\ \A v \in Users, x \in 0..(2 * MaxUnits) :
               StoredCount(r.expenseSplits, i, v, x)
                 = Cardinality({k \in 1..Len(s) : s[k].userId = v /\ s[k].share = x})

\* C11 (amended): after a successful updateEventExpense(id, amount, splits) the
\* stored splits of the expense are the input splits and no others, each share
\* rounded to whole cents as the decimal(10,2) column stores it, the stored
\* amount is the input amount rounded likewise, and the splits of every other
\* expense are as they were.
C11_ReplaceSemantics ==
  \A u \in Sessions, i \in ExpenseIds, a \in Amounts, s \in SplitInputs :
    LET r == UpdateEventExpenseCall(u, i, a, s)
    IN  r.reply = Ok =>
          /\ r.expenses[i].amount = NearestCent(a)
          /\ \A v \in Users, x \in 0..(2 * MaxUnits) :
               StoredCount(r.expenseSplits, i, v, x)
                 = Cardinality({k \in 1..Len(s) :
                                  s[k].userId = v /\ NearestCent(s[k].share) = x})
          /\ \A j \in ExpenseIds \ {i}, v \in Users, x \in 0..(2 * MaxUnits) :
               StoredCount(r.expenseSplits, j, v, x) = StoredCount(expenseSplits, j, v, x)

\* C11 witness: the payer updates an expense stored next to another one with
\* splits that name none of the users of its old splits, and the call succeeds.
C11_Witness ==
  /\ Cardinality(LiveIds(expenses)) = 2
  /\ \E u \in Sessions, i \in ExpenseIds, a \in Amounts, s \in SplitInputs :
       /\ UpdateEventExpenseCall(u, i, a, s).reply = Ok
       /\ SplitCount(expenseSplits, i) = 2
       /\ Len(s) = 1
       /\ \A r \in SplitsOf(expenseSplits, i) : r.userId # s[1].userId
       /\ SplitCount(UpdateEventExpenseCall(u, i, a, s).expenseSplits, i) = 1

\* C12 (as claimed): no stored expense has two splits with the same userId.
C12_OneSplitPerUser ==
  \A i \in LiveIds(expenses) :
    \A r1, r2 \in SplitsOf(expenseSplits, i) :
      /\ expenseSplits[r1] = 1
      /\ r1.userId = r2.userId => r1 = r2

\* C13 (as claimed): a getBalance, getById or getEventExpenses request of a user
\* who is neither the creator nor a participant of the event is not answered
\* with data.
C13_BalanceAuthorization ==
  \A c \in CallIds :
    ( /\ calls[c].pc = "done"
      /\ calls[c].op \in {"getBalance", "getById", "getEventExpenses"}
      /\ ~IsMember(events, eventParticipants, calls[c].eventId, calls[c].user) )
    => calls[c].reply # Ok

\* The net balance the list bal gives for user u.
NetOf(bal, u) == bal[IndexOf(bal, u)].netBalance

\* C14: no settlement the planner emits for a balance list of one record per
\* user has the same user as from and to.
C14_NoSelfSettlement ==
  page # Loading =>
    /\ \A k \in 1..Len(settlements) : settlements[k].from # settlements[k].to
    /\ LET plan == Planner(balance).settlements
       IN  \A k \in 1..Len(plan) : plan[k].from # plan[k].to

\* C14 witness: a render has emitted two settlements, paid by two debtors.
C14_Witness ==
  /\ page = Rendered
  /\ Len(settlements) = 2
  /\ settlements[1].from # settlements[2].from

\* C15: every settlement the planner emits has an amount of at least 0.01.
C15_PositiveAmounts ==
  page # Loading =>
    /\ \A k \in 1..Len(settlements) : settlements[k].amount >= Tolerance
    /\ LET plan == Planner(balance).settlements
       IN  \A k \in 1..Len(plan) : plan[k].amount >= Tolerance

\* C15 witness: a render has emitted a settlement that left its debtor with a
\* debt of less than 0.01, which no further settlement covers.
C15_Witness ==
  /\ page = Rendered
  /\ Len(balance) = 2
  /\ Len(settlements) = 1
  /\ \E i \in 1..Len(balance) :
       /\ balance[i].user = settlements[1].from
       /\ balance[i].netBalance < 0
       /\ balance[i].netBalance > -Tolerance

\* C16: the settlements come grouped by creditor, the creditors in descending
\* order of their net balance, the debtors in ascending order of theirs, so
\* the first settlement is paid by the largest debtor to the largest creditor;
\* for A +20, B +10, C -30 the output is exactly C->A 20.00, C->B 10.00.
C16_SettlementOrder ==
  /\ page # Loading =>
       LET plan == Planner(balance).settlements
       IN  /\ \A k \in 1..(Len(plan) - 1) :
                /\ NetOf(balance, plan[k].to) >= NetOf(balance, plan[k + 1].to)
                /\ NetOf(balance, plan[k].from) <= NetOf(balance, plan[k + 1].from)
           /\ \A j, k, l \in 1..Len(plan) :
                (j < k /\ k < l /\ plan[j].to = plan[l].to) => plan[k].to = plan[j].to
           /\ plan # <<>> =>
                \A i \in 1..Len(balance) :
                  /\ balance[i].netBalance <= NetOf(balance, plan[1].to)
                  /\ balance[i].netBalance >= NetOf(balance, plan[1].from)
  /\ Planner(<<BalanceRecord("A", 2000 * UnitsPerCent),
               BalanceRecord("B", 1000 * UnitsPerCent),
               BalanceRecord("C", -3000 * UnitsPerCent)>>).settlements
       = <<[from |-> "C", to |-> "A", amount |-> 2000 * UnitsPerCent],
           [from |-> "C", to |-> "B", amount |-> 1000 * UnitsPerCent]>>

\* C16 witness: a render has emitted two settlements by the same debtor, the
\* first to the larger of two creditors.
C16_Witness ==
  /\ page = Rendered
  /\ Len(settlements) = 2
  /\ settlements[1].from = settlements[2].from
  /\ settlements[1].to # settlements[2].to
  /\ settlements[1].amount > settlements[2].amount

\* Whether user u is the from or the to of a settlement of the list.
Involved(list, u) == \E k \in 1..Len(list) : list[k].from = u \/ list[k].to = u

\* The two expenses of the example, in cents: A pays 30.00 and B pays 15.00,
\* each split evenly among A, B and C.
ExampleShare(u, cents) == [userId |-> u, share |-> cents * UnitsPerCent]

ExampleRows ==
  <<[id |-> 1, paidBy |-> "A", amount |-> 3000 * UnitsPerCent,
     splits |-> <<ExampleShare("A", 1000), ExampleShare("B", 1000), ExampleShare("C", 1000)>>],
    [id |-> 2, paidBy |-> "B", amount |-> 1500 * UnitsPerCent,
     splits |-> <<ExampleShare("A", 500), ExampleShare("B", 500), ExampleShare("C", 500)>>]>>

\* C17: a participant whose net balance from getBalance is within 0.01 of zero
\* is in no settlement; for A paying 30 and B paying 15, split evenly among A, B
\* and C, the balances are A +15, B 0, C -15 and the only settlement is C pays
\* A 15.00.
C17_SettledExcluded ==
  /\ page = Fetched =>
       \A i \in 1..Len(balance) :
         Abs(balance[i].netBalance) <= Tolerance =>
           ~Involved(Planner(balance).settlements, balance[i].user)
  /\ LET bal == CalculateBalances(ExampleRows)
     IN  /\ {<<bal[i].user, bal[i].netBalance>> : i \in 1..Len(bal)}
              = {<<"A", 1500 * UnitsPerCent>>, <<"B", 0>>, <<"C", -1500 * UnitsPerCent>>}
         /\ Len(bal) = 3
         /\ Planner(bal).settlements
              = <<[from |-> "C", to |-> "A", amount |-> 1500 * UnitsPerCent]>>

\* C17 witness: getBalance has returned a participant within 0.01 of zero next
\* to two participants between whom the planner emits a settlement.
C17_Witness ==
  /\ page = Fetched
  /\ Len(balance) = 3
  /\ Planner(balance).settlements # <<>>
  /\ \E i \in 1..Len(balance) :
       /\ Abs(balance[i].netBalance) <= Tolerance
       /\ balance[i].netBalance # 0

\* C18: getBalance on an event without expenses returns the empty list, and
\* the planner emits no settlement when the list is empty, holds no net
\* balance above 0.01 or holds no net balance below -0.01.
C18_EmptyInput ==
  page = Fetched =>
    /\ EventExpenseIds(expenses, "e1") = {} => balance = <<>>
    /\ ( \/ balance = <<>>
         \/ \A i \in 1..Len(balance) : ~(balance[i].netBalance > Tolerance)
         \/ \A i \in 1..Len(balance) : ~(balance[i].netBalance < -Tolerance) )
       => Planner(balance).settlements = <<>>

\* C18 witness: getBalance has returned a list with a creditor above 0.01 and
\* no debtor below -0.01.
C18_Witness ==
  /\ page = Fetched
  /\ \E i \in 1..Len(balance) : balance[i].netBalance > Tolerance
  /\ \A i \in 1..Len(balance) : ~(balance[i].netBalance < -Tolerance)

SameRecords(b1, b2) ==
  /\ Len(b1) = Len(b2)
  /\ {b1[i] : i \in 1..Len(b1)} = {b2[i] : i \in 1..Len(b2)}

C20_SettledLabel ==
  [][(page = Fetched /\ page' = Rendered) =>
       \A i \in 1..Len(balance) :
         /\ (CardLabel(balance'[i]) = "Settled")
              <=> /\ \A k \in 1..Len(Creditors(balance)) : Creditors(balance)[k] # i
                  /\ \A k \in 1..Len(Debtors(balance)) : Debtors(balance)[k] # i
         /\ CardLabel(balance'[i]) # "Settled" => Abs(balance'[i].netBalance) >= Tolerance]_vars

\* C21: for every balance list the settlement loop comes to its end; every
\* run of the body of the while either leaves the creditor with at most 0.01
\* of credit or leaves the debtor at zero and moves the cursor to the next
\* debtor; the while is left when the credit is at most 0.01 or the debtors
\* are exhausted, and the loop ends once the creditors are exhausted.
C21_PlannerTermination ==
  /\ <>(loop.pc = "done")
  /\ [][(loop.pc = "while" /\ loop'.pc = "while") =>
          \/ loop'.remaining <= Tolerance
          \/ /\ balance'[loop.debtors[loop.debtorIndex]].netBalance = 0
             /\ loop'.debtorIndex = loop.debtorIndex + 1]_vars
  /\ [][(loop.pc = "while" /\ loop'.pc = "for") =>
          \/ loop.remaining <= Tolerance
          \/ loop.debtorIndex > Len(loop.debtors)]_vars
  /\ [](loop.pc = "done" => loop.creditorIndex = Len(loop.creditors))

\* C21 witness: the loop has ended after two runs of the body for one
\* creditor, each of which exhausted a debtor and moved the cursor.
C21_Witness ==
  /\ loop.pc = "done"
  /\ Len(settlements) = 2
  /\ Len(loop.creditors) = 1
  /\ Len(loop.debtors) = 2
  /\ loop.debtorIndex = 3

\* C22: for a balance list with C >= 1 records above 0.01 and D >= 1 records
\* below -0.01 the planner emits at least one settlement and at most
\* C + D - 1, both as a function of the list and in the render of a list
\* getBalance returned.
C22_LinearOutput ==
  /\ [](page # Loading =>
          LET C == Cardinality({i \in 1..Len(balance) : balance[i].netBalance > Tolerance})
              D == Cardinality({i \in 1..Len(balance) : balance[i].netBalance < -Tolerance})
              plan == Planner(balance).settlements
          IN  (C >= 1 /\ D >= 1) => (Len(plan) >= 1 /\ Len(plan) <= C + D - 1))
  /\ [][(page = Fetched /\ page' = Rendered) =>
          LET C == Cardinality({i \in 1..Len(balance) : balance[i].netBalance > Tolerance})
              D == Cardinality({i \in 1..Len(balance) : balance[i].netBalance < -Tolerance})
          IN  (C >= 1 /\ D >= 1) =>
                (Len(settlements') >= 1 /\ Len(settlements') <= C + D - 1)]_vars

\* C22 witness: a render has emitted C + D - 1 = 2 settlements, from two
\* debtors to the one creditor of a list of three records.
C22_Witness ==
  /\ page = Rendered
  /\ Len(balance) = 3
  /\ Len(settlements) = 2
  /\ settlements[1].to = settlements[2].to
  /\ settlements[1].amount + settlements[2].amount = MaxNet

\* C23 (as claimed): every expense the form has created with an even split
\* of an amount of whole cents among the n participants of the event is stored
\* with n splits whose shares sum to the stored amount within 0.01.
C23_EvenSplitRounding ==
  \A i \in LiveIds(expenses) :
    /\ SplitCount(expenseSplits, i) = Len(eventParticipants[expenses[i].eventId])
    /\ ShareSum(expenseSplits, i) - expenses[i].amount <= Tolerance
    /\ expenses[i].amount - ShareSum(expenseSplits, i) <= Tolerance

\* C24 (as claimed): expense.delete called by the payer of an event expense
\* succeeds and removes the expense and its splits, so that no getBalance
\* asked afterwards reads the expense.
C24_DeleteEventExpense ==
  \A u \in Sessions, i \in ExpenseIds :
    (OwnExpense(expenses, i, u) /\ expenses[i].eventId # NoEvent) =>
      LET r == DeleteCall(u, i)
      IN  /\ r.reply = Ok
          /\ r.expenses[i] = NoRow
          /\ SplitsOf(r.expenseSplits, i) = {}
          /\ \A rank \in Perms(Users) :
               \A order \in Perms(EventExpenseIds(r.expenses, expenses[i].eventId)) :
                 LET rows == FindEventExpenses(r.expenses, r.expenseSplits, order, rank)
                 IN  \A k \in 1..Len(rows) : rows[k].id # i

\* C30 (as claimed): the payer and every split user of each stored event
\* expense is the creator or a participant of the event (whose participants
\* never change here), and getBalance reports no balance for anyone else.
C30_DebtsInsideEvent ==
  /\ \A i \in LiveIds(expenses) :
       expenses[i].eventId # NoEvent =>
         /\ IsMember(events, eventParticipants, expenses[i].eventId, expenses[i].paidBy)
         /\ \A r \in SplitsOf(expenseSplits, i) :
              IsMember(events, eventParticipants, expenses[i].eventId, r.userId)
  /\ page = Fetched =>
       \A k \in 1..Len(balance) : IsMember(events, eventParticipants, "e1", balance[k].user)

\* C25 (as claimed): after any completed event.create, addParticipants and
\* removeParticipants calls by any users, the creator of every existing event
\* is among the participants of the event.
C25_CreatorParticipates ==
  \A e \in EventIds :
    events[e] # NoRow => Contains(eventParticipants[e], events[e].createdBy)

\* C26 (as claimed): after any event.create, addParticipants and
\* removeParticipants calls, with participantIds lists that may repeat an id,
\* no user occurs twice among the participants of an event.
C26_NoDuplicateParticipants ==
  \A e \in EventIds :
    \A i, j \in 1..Len(eventParticipants[e]) :
      eventParticipants[e][i] = eventParticipants[e][j] => i = j

\* The four tables as a handler's result leaves them are the tables as they
\* are.
Untouched(r) ==
  /\ r.events = events
  /\ r.eventParticipants = eventParticipants
  /\ r.expenses = expenses
  /\ r.expenseSplits = expenseSplits

\* C29: event.update, event.delete, event.addParticipants and
\* event.removeParticipants called by a user who is not the creator of the
\* event throw and leave the events, participants, expenses and splits as they
\* were; so do addParticipants by the creator with only users who already are
\* participants and removeParticipants by the creator naming only the creator.
C29_CreatorOnly ==
  \A u \in Users, e \in EventIds :
    events[e] # NoRow =>
      /\ events[e].createdBy # u =>
           /\ \A n \in Names :
                /\ EventUpdateCall(u, e, n).reply = ErrEventUpdate
                /\ Untouched(EventUpdateCall(u, e, n))
           /\ EventDeleteCall(u, e).reply = ErrEventDelete
           /\ Untouched(EventDeleteCall(u, e))
           /\ \A ids \in IdLists :
                /\ AddParticipantsCall(u, e, ids).reply = ErrEventAdd
                /\ Untouched(AddParticipantsCall(u, e, ids))
                /\ RemoveParticipantsCall(u, e, ids).reply = ErrEventRemove
                /\ Untouched(RemoveParticipantsCall(u, e, ids))
      /\ events[e].createdBy = u =>
           \A ids \in IdLists :
             /\ (\A k \in 1..Len(ids) : Contains(eventParticipants[e], ids[k])) =>
                  /\ AddParticipantsCall(u, e, ids).reply = ErrAllPresent
                  /\ Untouched(AddParticipantsCall(u, e, ids))
             /\ (\A k \in 1..Len(ids) : ids[k] = u) =>
                  /\ RemoveParticipantsCall(u, e, ids).reply = ErrRemoveCreator
                  /\ Untouched(RemoveParticipantsCall(u, e, ids))

\* C29 witness: a participant who is not the creator has just been refused
\* the removal of participants, on an event that has an expense with a split.
C29_Witness ==
  /\ reply = ErrEventRemove
  /\ \E e \in EventIds :
       /\ events[e] # NoRow
       /\ Len(eventParticipants[e]) >= 2
       /\ \E i \in 1..Len(eventParticipants[e]) :
            eventParticipants[e][i] # events[e].createdBy
       /\ EventExpenseIds(expenses, e) # {}
  /\ expenseSplits # EmptyBag

\* C27 (as claimed): friend.getAll of one user lists another exactly when
\* friend.getAll of the other lists the one, in every state in which no
\* addByEmail is between its statements.
C27_FriendshipBidirectional ==
  (\A c \in CallIds : friendCalls[c].pc \in {"idle", "done"}) =>
    \A a, b \in Users :
      Contains(GetAll(friends, a), b) <=> Contains(GetAll(friends, b), a)

\* C28 (as claimed): the friends table never holds two rows for the same
\* unordered pair of users nor a row from a user to themselves, and an
\* addByEmail that is refused leaves the table as it was.
C28_FriendshipUnique ==
  /\ [](\A r1, r2 \in BagToSet(friends) :
          /\ friends[r1] = 1
          /\ r1.userId # r1.friendUserId
          /\ {r1.userId, r1.friendUserId} = {r2.userId, r2.friendUserId} => r1 = r2)
  /\ [][\A c \in CallIds :
          ( /\ friendCalls[c].op = "addByEmail"
            /\ friendCalls[c].pc # "done"
            /\ friendCalls'[c].pc = "done"
            /\ friendCalls'[c].reply \in {ErrSelf, ErrFriendshipExists, ErrUserNotFound} )
          => friends' = friends]_vars

=============================================================================
